---- MODULE Spec2Model ----
(***************************************************************************)
(* The crypto dashboard (src/app.py) and its realtime scraper              *)
(* (src/scrape_realtime.py) as a state machine.                            *)
(*                                                                         *)
(* Dashboard: the three dcc.Store components (slide-index, selected-coin,  *)
(* sidebar-toggle), the components the callbacks render into, and one      *)
(* action per user event; an event's action runs the callback the event    *)
(* triggers and then every callback whose Input is the store it wrote.     *)
(*                                                                         *)
(* Scraper: one run of the script, step by step (glob, remove each old     *)
(* file, request, save), over a small file system.                         *)
(*                                                                         *)
(* Python strings that the code parses (nav-link ids) are sequences of     *)
(* one-character strings; str, startswith, split and int work on them.     *)
(***************************************************************************)
EXTENDS Integers, Sequences, FiniteSets, TLC

VARIABLES
    slide_index,     \* dcc.Store 'slide-index'
    selected_coin,   \* dcc.Store 'selected-coin'
    sidebar_toggle,  \* dcc.Store 'sidebar-toggle'
    rendered,        \* question-title, main-graph, dynamic-dropdown
    layout,          \* styles of sidebar, main-content, toggle-sidebar
    last,            \* history: the last event and the stores before it
    run,             \* history: the current run of same-direction steps
    files,           \* scraper: the file system, path -> mtime
    pc,              \* scraper: position in the script
    old_files,       \* scraper: glob result still to be removed
    response,        \* scraper: status code of the request
    now,             \* scraper: the clock
    written,         \* scraper: the file this run saved
    delete_error,    \* scraper: some os.remove of this run raised
    realtime_path    \* dashboard start: result of get_latest_file

dash_vars   == <<slide_index, selected_coin, sidebar_toggle, rendered, layout, last, run>>
scrape_vars == <<files, pc, old_files, response, now, written, delete_error, realtime_path>>
vars        == <<slide_index, selected_coin, sidebar_toggle, rendered, layout, last, run,
                 files, pc, old_files, response, now, written, delete_error, realtime_path>>

----------------------------------------------------------------------------
(* Python values *)

PyNone == [py |-> "None"]

\* What a callback hands back to Dash.
NoUpdate  == [t |-> "no_update"]
Return(v) == [t |-> "return", v |-> v]
Raise(e)  == [t |-> "raise", e |-> e]

\* Python's % for a positive modulus: the result is never negative.
PyMod(a, n) == a % n

Digits == <<"0", "1", "2", "3", "4", "5", "6", "7", "8", "9">>

DigitChar(d) == Digits[d + 1]

IsDigit(c) == \E d \in 0..9 : DigitChar(d) = c

DigitVal(c) == CHOOSE d \in 0..9 : DigitChar(d) = c

\* str(n) for a non-negative int.
RECURSIVE str(_)
str(n) == IF n < 10 THEN <<DigitChar(n)>> ELSE str(n \div 10) \o <<DigitChar(n % 10)>>

\* int(s) for a str of ASCII letters, digits and '-' without sign or blanks:
\* the decimal value, ValueError for the empty string or a non-digit.
RECURSIVE DecimalValue(_)
DecimalValue(s) ==
    IF s = <<>> THEN 0
    ELSE 10 * DecimalValue(SubSeq(s, 1, Len(s) - 1)) + DigitVal(s[Len(s)])

int(s) ==
    IF s # <<>> /\ \A k \in 1..Len(s) : IsDigit(s[k])
    THEN Return(DecimalValue(s))
    ELSE Raise("ValueError")

startswith(s, p) == Len(s) >= Len(p) /\ SubSeq(s, 1, Len(p)) = p

\* s.split(sep) for a one-character sep: the pieces between the separators.
RECURSIVE split(_, _)
split(s, sep) ==
    IF \A k \in 1..Len(s) : s[k] # sep THEN <<s>>
    ELSE LET k == CHOOSE j \in 1..Len(s) :
                      s[j] = sep /\ \A i \in 1..(j - 1) : s[i] # sep
         IN <<SubSeq(s, 1, k - 1)>> \o split(SubSeq(s, k + 1, Len(s)), sep)

\* list[idx]: Python counts a negative index from the end.
GetItem(list, idx) ==
    IF 0 <= idx /\ idx < Len(list) THEN Return(list[idx + 1])
    ELSE IF -Len(list) <= idx /\ idx < 0 THEN Return(list[Len(list) + idx + 1])
    ELSE Raise("IndexError")

----------------------------------------------------------------------------
(* The datasets and the slide catalog *)

\* historical_df: rows of (id, timestamp); the other columns ride along.
historical_df ==
    { [id |-> "bitcoin",  timestamp |-> 1], [id |-> "bitcoin",  timestamp |-> 2],
      [id |-> "ethereum", timestamp |-> 1], [id |-> "ethereum", timestamp |-> 2] }

HistoricalIds == { r.id : r \in historical_df }

\* A coin id the historical dataset does not hold.
UnknownCoin == "dogecoin"

Fig(kind, data, what) == [fig |-> kind, data |-> data, what |-> what]

chart_items == <<
    [title |-> "Market Cap Distribution",      fig |-> Fig("histogram", "realtime_df", "market_cap")],
    [title |-> "Current Price Distribution",   fig |-> Fig("histogram", "realtime_df", "current_price")],
    [title |-> "Market Cap vs Volume",         fig |-> Fig("scatter", "realtime_df", "market_cap/total_volume")],
    [title |-> "Price Change % in 24h",        fig |-> Fig("histogram", "realtime_df", "price_change_percentage_24h")],
    [title |-> "Market Cap vs Price Change %", fig |-> Fig("scatter", "realtime_df", "market_cap/price_change_percentage_24h")],
    [title |-> "Top 10 Most Traded",           fig |-> Fig("bar", "realtime_df", "total_volume")],
    [title |-> "Top 10 vs Rest",               fig |-> Fig("pie", "pie_data", "market_cap")],
    [title |-> "Price Over Time",              fig |-> PyNone],
    [title |-> "Market Cap Over Time",         fig |-> PyNone],
    [title |-> "Volume Over Time",             fig |-> PyNone],
    [title |-> "Market Cap vs Price",          fig |-> Fig("scatter", "historical_df", "price/market_cap")],
    [title |-> "Correlation Between Crypto Prices", fig |-> Fig("imshow", "historical_df", "price corr")],
    [title |-> "How far are current price of coins from their ATH", fig |-> Fig("bar", "historical_df", "current_vs_ath")],
    [title |-> "Market Cap of BTC vs Other Cryptos", fig |-> Fig("line", "historical_df", "mcap_pct_btc")],
    [title |-> "Price of BTC vs Other Cryptos", fig |-> Fig("line", "historical_df", "price_pct_btc")]
>>

\* len(chart_items)
N == Len(chart_items)

\* The dcc.Dropdown 'crypto-select'.
dropdown == [id |-> "crypto-select", options |-> HistoricalIds, value |-> "bitcoin"]

\* px.line(df, x='timestamp', y=y, title=...) of the rows of one coin.
px_line(df, y, title) == [fig |-> "line", data |-> df, what |-> y, title |-> title]

\* The nav-link ids the layout generates from the catalog.
RtPrefix  == <<"r", "t", "-">>
HisPrefix == <<"h", "i", "s", "-">>

RealtimeCount == 7

realtime_links == { RtPrefix \o str(i) : i \in 0..(Len(SubSeq(chart_items, 1, RealtimeCount)) - 1) }

historical_links ==
    { HisPrefix \o str(i) : i \in 0..(Len(SubSeq(chart_items, RealtimeCount + 1, N)) - 1) }

NavLinkId(index) == [type |-> "nav-link", index |-> index]

----------------------------------------------------------------------------
(* The file system, glob and get_latest_file *)

\* A path is a directory and a file name; the name is cut into the part
\* before the timestamp, the timestamp (strftime of a clock value, to the
\* second) and the part after it, which is what the patterns tell apart.
Path(dir, head, stamp, tail) == [dir |-> dir, head |-> head, stamp |-> stamp, tail |-> tail]

DATA_DIR == "data/realtime"

TOP10_DIR == "data/historical"

\* A glob pattern dir/head*tail.
Pattern(dir, head, tail) == [dir |-> dir, head |-> head, tail |-> tail]

\* glob.glob(pattern) over the file system fs, a set of [path, mtime].
glob(fs, pattern) ==
    { f \in fs : /\ f.path.dir = pattern.dir
                 /\ f.path.head = pattern.head
                 /\ f.path.tail = pattern.tail }

\* get_latest_file: FileNotFoundError when nothing matches, else a match
\* with the largest mtime (max keeps the first of equals in glob's order,
\* which is the directory's: any of them).
get_latest_file(fs, path_pattern) ==
    LET found == glob(fs, path_pattern)
    IN IF found = {} THEN {Raise("FileNotFoundError")}
       ELSE { Return(f.path) : f \in { g \in found : \A h \in found : h.mtime <= g.mtime } }

realtime_pattern == Pattern("data/realtime", "crypto_data_", ".csv")

\* Variant: the scraper globs the top-10 folder for its old files.
csv_pattern_top10 == Pattern(TOP10_DIR, "crypto_data_", ".csv")

\* The scraper's pattern, from the working directory the dashboard runs in.
csv_pattern == Pattern(DATA_DIR, "crypto_data_", ".csv")

snapshot_file(t) == Path(DATA_DIR, "crypto_data_", t, ".csv")

top10_file == Path(TOP10_DIR, "top_10_coins", 0, ".txt")

os_remove(fs, path) == { f \in fs : f.path # path }

\* open(path, "w") / to_csv at clock value t: the file is created or replaced.
write_file(fs, path, t) == os_remove(fs, path) \cup {[path |-> path, mtime |-> t]}

----------------------------------------------------------------------------
(* The callbacks *)

\* Variant: the store is handed back as it was.
toggle_sidebar_same(n, current) == Return(current)

toggle_sidebar(n, current) == Return(~current)

adjust_layout(show_sidebar) ==
    IF show_sidebar
    THEN [sidebar |-> "unset",  main_content |-> "270px", toggle_sidebar |-> "270px"]
    ELSE [sidebar |-> "-270px", main_content |-> "0px",   toggle_sidebar |-> "10px"]

HistoricalOffset == 7

set_slide(triggered) ==
    IF triggered # PyNone /\ "index" \in DOMAIN triggered
    THEN LET full_index == triggered.index
             piece == split(full_index, "-")[2]
         IN IF startswith(full_index, RtPrefix)
            THEN int(piece)
            ELSE IF startswith(full_index, HisPrefix)
            THEN LET i == int(piece)
                 IN IF i.t = "return" THEN Return(HistoricalOffset + i.v) ELSE i
            ELSE NoUpdate
    ELSE NoUpdate

\* Variants of change_slide with a slip in the index arithmetic.
change_slide_nowrap(triggered_id, current_idx) ==
    IF triggered_id = "prev-btn" THEN Return(current_idx - 1)
    ELSE IF triggered_id = "next-btn" THEN Return(current_idx + 1)
    ELSE Return(current_idx)

change_slide_swapped(triggered_id, current_idx) ==
    IF triggered_id = "prev-btn" THEN Return(PyMod(current_idx + 1, Len(chart_items)))
    ELSE IF triggered_id = "next-btn" THEN Return(PyMod(current_idx - 1, Len(chart_items)))
    ELSE Return(current_idx)

change_slide_clamped(triggered_id, current_idx) ==
    IF triggered_id = "prev-btn"
    THEN Return(IF current_idx = 0 THEN 0 ELSE current_idx - 1)
    ELSE IF triggered_id = "next-btn"
    THEN Return(IF current_idx = Len(chart_items) - 1 THEN current_idx ELSE current_idx + 1)
    ELSE Return(current_idx)

change_slide(triggered_id, current_idx) ==
    IF triggered_id = "prev-btn" THEN Return(PyMod(current_idx - 1, Len(chart_items)))
    ELSE IF triggered_id = "next-btn" THEN Return(PyMod(current_idx + 1, Len(chart_items)))
    ELSE Return(current_idx)

\* Variant: the last parametric slide is left out of the test.
ParametricSlides_short == {7, 8}

ParametricSlides == {7, 8, 9}

update_slide(idx, coin) ==
    LET item == GetItem(chart_items, idx)
    IN IF item.t = "raise" THEN item
       ELSE LET question == item.v.title
                show_dropdown == idx \in ParametricSlides
                df == { r \in historical_df : r.id = coin }
                fig == IF show_dropdown /\ idx = 7 THEN px_line(df, "price", <<coin, "Price Over Time">>)
                       ELSE IF show_dropdown /\ idx = 8 THEN px_line(df, "market_cap", <<coin, "Market Cap Over Time">>)
                       ELSE IF show_dropdown /\ idx = 9 THEN px_line(df, "total_volume", <<coin, "Volume Over Time">>)
                       ELSE item.v.fig
            IN Return([question_title |-> question,
                       main_graph |-> fig,
                       dynamic_dropdown |-> IF show_dropdown THEN dropdown ELSE PyNone])

\* val is None or a str.
PyStr(s) == [py |-> "str", s |-> s]

Truthy(val) == val # PyNone /\ val.s # ""

\* Variants: no truthiness test on a str; only ids of the dataset are taken.
update_coin_unguarded(val) == IF val = PyNone THEN NoUpdate ELSE Return(val.s)

update_coin_known_only(val) ==
    IF Truthy(val) /\ val.s \in HistoricalIds THEN Return(val.s) ELSE NoUpdate

update_coin(val) == IF Truthy(val) THEN Return(val.s) ELSE NoUpdate

----------------------------------------------------------------------------
(* Dash's wiring: the Input declarations of the rendering callbacks *)

\* Variant: update_slide takes selected-coin as State, not as Input.
Inputs_update_slide_index_only == {"slide-index"}

Inputs_update_slide == {"slide-index", "selected-coin"}

Inputs_adjust_layout == {"sidebar-toggle"}

\* A store takes a callback's return value; no_update and an exception leave it.
StoreAfter(old, ret) == IF ret.t = "return" THEN ret.v ELSE old

\* update_slide runs when a store among its Inputs was written.
RenderAfter(store, ret, idx, coin) ==
    IF ret.t = "return" /\ store \in Inputs_update_slide
    THEN StoreAfter(rendered, update_slide(idx, coin))
    ELSE rendered

LayoutAfter(store, ret, show) ==
    IF ret.t = "return" /\ store \in Inputs_adjust_layout
    THEN adjust_layout(show)
    ELSE layout

Before(event, arg, ret) ==
    [event |-> event, arg |-> arg, ret |-> ret.t,
     slide_index |-> slide_index, selected_coin |-> selected_coin,
     sidebar_toggle |-> sidebar_toggle]

NoRun == [dir |-> "none", len |-> 0, start |-> 0]

\* The run of consecutive steps in one direction, restarted once it has N steps.
RunAfter(triggered_id) ==
    IF run.dir = triggered_id /\ run.len < N
    THEN [run EXCEPT !.len = run.len + 1]
    ELSE [dir |-> triggered_id, len |-> 1, start |-> slide_index]

----------------------------------------------------------------------------
(* The dashboard session *)

\* The files a running dashboard was started on, and the paths it loaded.
SessionFiles ==
    { [path |-> snapshot_file(0), mtime |-> 0],
      [path |-> Path(TOP10_DIR, "top_10_crypto_", 0, ".csv"), mtime |-> 0] }

InitSession ==
    /\ files = SessionFiles
    /\ pc = "idle"
    /\ old_files = {}
    /\ response = 0
    /\ now = 0
    /\ written = PyNone
    /\ delete_error = FALSE
    /\ realtime_path \in get_latest_file(files, realtime_pattern)

InitDash ==
    /\ slide_index = 0
    /\ selected_coin = "bitcoin"
    /\ sidebar_toggle = TRUE
    /\ rendered = update_slide(0, "bitcoin").v
    /\ layout = adjust_layout(TRUE)
    /\ last = [event |-> "load", arg |-> PyNone, ret |-> "return",
               slide_index |-> 0, selected_coin |-> "bitcoin", sidebar_toggle |-> TRUE]
    /\ run = NoRun

Init == InitDash /\ InitSession

\* A click on nav-link `index`.
SetSlideOn(index) ==
    LET ret == set_slide(NavLinkId(index))
        idx == StoreAfter(slide_index, ret)
    IN /\ slide_index' = idx
       /\ rendered' = RenderAfter("slide-index", ret, idx, selected_coin)
       /\ last' = Before("nav-link", index, ret)
       /\ run' = IF ret.t = "return" THEN NoRun ELSE run
       /\ UNCHANGED <<selected_coin, sidebar_toggle, layout>>
       /\ UNCHANGED scrape_vars

SetSlide == \E index \in realtime_links \cup historical_links : SetSlideOn(index)

ChangeSlide ==
    \E triggered_id \in {"prev-btn", "next-btn"} :
        LET ret == change_slide(triggered_id, slide_index)
            idx == StoreAfter(slide_index, ret)
        IN /\ slide_index' = idx
           /\ rendered' = RenderAfter("slide-index", ret, idx, selected_coin)
           /\ last' = Before(triggered_id, PyNone, ret)
           /\ run' = RunAfter(triggered_id)
           /\ UNCHANGED <<selected_coin, sidebar_toggle, layout>>
           /\ UNCHANGED scrape_vars

DropdownValues == { PyStr(s) : s \in HistoricalIds \cup {UnknownCoin, ""} } \cup {PyNone}

UpdateCoin ==
    \E val \in DropdownValues :
        LET ret == update_coin(val)
            coin == StoreAfter(selected_coin, ret)
        IN /\ selected_coin' = coin
           /\ rendered' = RenderAfter("selected-coin", ret, slide_index, coin)
           /\ last' = Before("crypto-select", val, ret)
           /\ UNCHANGED <<slide_index, sidebar_toggle, layout, run>>
           /\ UNCHANGED scrape_vars

ToggleSidebar ==
    LET ret == toggle_sidebar(1, sidebar_toggle)
        show == StoreAfter(sidebar_toggle, ret)
    IN /\ sidebar_toggle' = show
       /\ layout' = LayoutAfter("sidebar-toggle", ret, show)
       /\ last' = Before("toggle-sidebar", PyNone, ret)
       /\ UNCHANGED <<slide_index, selected_coin, rendered, run>>
       /\ UNCHANGED scrape_vars

Next == SetSlide \/ ChangeSlide \/ UpdateCoin \/ ToggleSidebar

Spec == Init /\ [][Next]_vars

\* Ids that reach set_slide when the callback is called with an id the layout
\* does not generate.
ForeignLinks ==
    { HisPrefix \o <<"8">>, RtPrefix \o <<"2", "0">>, RtPrefix, HisPrefix \o <<"x">>,
      <<"f", "o", "o", "-", "1">>, RtPrefix \o <<"1", "-", "2">>, <<"r", "t">> }

SetSlideForeign == \E index \in ForeignLinks : SetSlideOn(index)

NextPublic == Next \/ SetSlideForeign

SpecPublic == Init /\ [][NextPublic]_vars

----------------------------------------------------------------------------
(* Properties of the dashboard session *)

Steps == {"prev-btn", "next-btn"}

Direction(triggered_id) == IF triggered_id = "prev-btn" THEN -1 ELSE 1

\* C1: from the initial state, after any sequence of generated menu jumps,
\* Previous/Next steps, coin selections and sidebar toggles, slide_index is
\* an integer in [0, N), with N = len(chart_items) = 15.
C1_SlideIndexInRange == N = 15 /\ slide_index \in 0..(N - 1)

C1_Witness == last.event = "nav-link" /\ slide_index = N - 1 /\ last.slide_index = 0

\* C2: a step in direction d from slide i leaves slide_index at
\* (i + d + N) mod N: Next on N-1 gives 0, Previous on 0 gives N-1, any
\* other step moves by exactly one.
C2_StepWraps ==
    last.event \in Steps =>
        LET i == last.slide_index
            d == Direction(last.event)
        IN /\ slide_index = (i + d + N) % N
           /\ (d = 1 /\ i = N - 1) => slide_index = 0
           /\ (d = -1 /\ i = 0) => slide_index = N - 1
           /\ ~(d = 1 /\ i = N - 1) /\ ~(d = -1 /\ i = 0) => slide_index = i + d

C2_Witness == last.event = "next-btn" /\ last.slide_index = N - 1 /\ slide_index = 0

\* C3: N steps in a row in one direction, with no other slide-changing
\* event in between, bring slide_index back to where the run started, and
\* no shorter positive number of steps does.
C3_CyclicClosure ==
    /\ run.len = N => slide_index = run.start
    /\ (0 < run.len /\ run.len < N) => slide_index # run.start

C3_Witness == run.dir = "prev-btn" /\ run.len = N /\ run.start = 4 /\ slide_index = 4

\* C4: update_coin with an empty or missing value leaves selected_coin as it
\* was, with a non-empty value it sets selected_coin to exactly that value;
\* selected_coin is never empty.
C4_SelectEntity ==
    /\ selected_coin # ""
    /\ last.event = "crypto-select" =>
          IF last.arg = PyNone \/ last.arg = PyStr("")
          THEN selected_coin = last.selected_coin
          ELSE selected_coin = last.arg.s

C4_Witness ==
    /\ last.event = "crypto-select"
    /\ last.arg = PyStr("")
    /\ last.selected_coin = "ethereum"
    /\ selected_coin = "ethereum"

IsUnknownSelect ==
    /\ last.event = "crypto-select"
    /\ last.arg # PyNone
    /\ last.arg.s # ""
    /\ last.arg.s \notin HistoricalIds

\* C5 as stated: selecting a non-empty id that the historical dataset does
\* not hold raises nothing and leaves selected_coin and the rest unchanged.
C5_UnknownIsNoOp ==
    IsUnknownSelect =>
        /\ last.ret # "raise"
        /\ selected_coin = last.selected_coin
        /\ slide_index = last.slide_index
        /\ sidebar_toggle = last.sidebar_toggle

\* C5 amended: selecting a non-empty id that the historical dataset does not
\* hold raises nothing and stores that id in selected_coin; slide_index and
\* sidebar_toggle stay, and a parametric slide then shows the selector and a
\* line chart of an empty subset.
C5_UnknownIsStored ==
    IsUnknownSelect =>
        /\ last.ret = "return"
        /\ selected_coin = last.arg.s
        /\ slide_index = last.slide_index
        /\ sidebar_toggle = last.sidebar_toggle
        /\ slide_index \in ParametricSlides =>
              /\ rendered.main_graph.data = {}
              /\ rendered.dynamic_dropdown = dropdown

C5_Witness ==
    /\ IsUnknownSelect
    /\ last.selected_coin = "bitcoin"
    /\ selected_coin = UnknownCoin
    /\ slide_index = 8

\* C6: a jump whose target lies outside [0, N) (nav-link id 'his-8' or
\* 'rt-20') fails at the jump itself and leaves slide_index unchanged; no
\* out-of-range slide_index is stored.
C6_OutOfRangeJumpFails ==
    /\ slide_index \in 0..(N - 1)
    /\ (last.event = "nav-link"
          /\ last.arg \in {HisPrefix \o <<"8">>, RtPrefix \o <<"2", "0">>}) =>
          /\ last.ret = "raise"
          /\ slide_index = last.slide_index

\* C7: for every slide and every selected coin (one absent from the
\* historical dataset included) update_slide returns the catalog title of
\* the slide and a chart that is not None; the selector is shown exactly
\* when the catalog entry carries no chart, which are the slides 7, 8, 9,
\* and every other slide shows the catalog's own chart.
C7_Resolve ==
    LET r == update_slide(slide_index, selected_coin)
        entry == chart_items[slide_index + 1]
    IN /\ r.t = "return"
       /\ r.v.question_title = entry.title
       /\ r.v.main_graph # PyNone
       /\ (r.v.dynamic_dropdown # PyNone) <=> (entry.fig = PyNone)
       /\ (entry.fig = PyNone) <=> (slide_index \in {7, 8, 9})
       /\ entry.fig # PyNone =>
             (r.v.main_graph = entry.fig /\ r.v.dynamic_dropdown = PyNone)

C7_Witness ==
    /\ slide_index = 9
    /\ selected_coin = UnknownCoin
    /\ rendered.question_title = "Volume Over Time"
    /\ rendered.dynamic_dropdown = dropdown
    /\ rendered.main_graph.data = {}

----------------------------------------------------------------------------
(* The scraper, run after run, and a dashboard start at any moment *)

HTTP_OK == 200

\* Status codes the API answers with: success, rate limit, server error.
StatusCodes == {HTTP_OK, 429, 500}

\* The clock's last value.
MaxClock == 3

\* Files that may lie in the folders before the first run.
OldFiles ==
    { [path |-> snapshot_file(0), mtime |-> 0],
      [path |-> snapshot_file(1), mtime |-> 1],
      [path |-> Path(DATA_DIR, "notes", 0, ".txt"), mtime |-> 0],
      [path |-> Path(TOP10_DIR, "top_10_crypto_", 0, ".csv"), mtime |-> 0] }

FirstRunClock == 2

InitScrape ==
    /\ InitDash
    /\ files \in SUBSET OldFiles
    /\ pc = "idle"
    /\ old_files = {}
    /\ response = 0
    /\ now = FirstRunClock
    /\ written = PyNone
    /\ delete_error = FALSE
    /\ realtime_path = PyNone

\* The script starts (on its schedule, the clock having moved on or not):
\* delete_old_csv_files globs the old files.
StartRun ==
    /\ pc \in {"idle", "done"}
    /\ \E t \in {now, now + 1} :
          /\ t <= MaxClock
          /\ now' = t
    /\ old_files' = glob(files, csv_pattern)
    /\ pc' = "delete"
    /\ response' = 0
    /\ written' = PyNone
    /\ delete_error' = FALSE
    /\ UNCHANGED <<files, realtime_path>>
    /\ UNCHANGED dash_vars

\* One turn of the loop: os.remove succeeds.
RemoveFile ==
    /\ pc = "delete"
    /\ \E file \in old_files :
          /\ files' = os_remove(files, file.path)
          /\ old_files' = old_files \ {file}
    /\ UNCHANGED <<pc, response, now, written, delete_error, realtime_path>>
    /\ UNCHANGED dash_vars

\* One turn of the loop: os.remove raises, the except clause reports it.
RemoveFails ==
    /\ pc = "delete"
    /\ \E file \in old_files :
          old_files' = old_files \ {file}
    /\ delete_error' = TRUE
    /\ UNCHANGED <<files, pc, response, now, written, realtime_path>>
    /\ UNCHANGED dash_vars

\* requests.get, after the loop has ended.
Request ==
    /\ pc = "delete"
    /\ old_files = {}
    /\ response' \in StatusCodes
    /\ pc' = "responded"
    /\ UNCHANGED <<files, old_files, now, written, delete_error, realtime_path>>
    /\ UNCHANGED dash_vars

\* status_code == 200: the snapshot and top_10_coins.txt are written.
Save ==
    /\ pc = "responded"
    /\ response = HTTP_OK
    /\ LET filename == snapshot_file(now)
       IN /\ files' = write_file(write_file(files, filename, now),
                                 top10_file, now)
          /\ written' = filename
    /\ pc' = "done"
    /\ UNCHANGED <<old_files, response, now, delete_error, realtime_path>>
    /\ UNCHANGED dash_vars

\* Any other status: "Connection Failed!".
ConnectionFailed ==
    /\ pc = "responded"
    /\ response # HTTP_OK
    /\ pc' = "done"
    /\ UNCHANGED <<files, old_files, response, now, written, delete_error, realtime_path>>
    /\ UNCHANGED dash_vars

\* The dashboard is started: realtime_path = get_latest_file(...).
LoadDashboard ==
    /\ realtime_path' \in get_latest_file(files, realtime_pattern)
    /\ UNCHANGED <<files, pc, old_files, response, now, written, delete_error>>
    /\ UNCHANGED dash_vars

NextScrape ==
    \/ StartRun
    \/ RemoveFile
    \/ RemoveFails
    \/ Request
    \/ Save
    \/ ConnectionFailed
    \/ LoadDashboard

SpecScrape == InitScrape /\ [][NextScrape]_vars

\* C10: in every run the old snapshot files are removed before the request
\* is made; so, when no removal failed, after a run that got 200 the
\* realtime folder holds exactly one crypto_data_*.csv file, the one just
\* written, and after a run that got another status it holds none, and
\* get_latest_file raises FileNotFoundError.
C10_OneSnapshotOrNone ==
    LET snapshots == glob(files, realtime_pattern)
    IN ~delete_error =>
          /\ pc = "responded" => snapshots = {}
          /\ (pc = "done" /\ response = HTTP_OK) =>
                /\ Cardinality(snapshots) = 1
                /\ \A f \in snapshots : f.path = written /\ f.path = snapshot_file(now)
          /\ (pc = "done" /\ response # HTTP_OK) =>
                /\ snapshots = {}
                /\ get_latest_file(files, realtime_pattern) = {Raise("FileNotFoundError")}

C10_Witness ==
    /\ pc = "done"
    /\ response # HTTP_OK
    /\ ~delete_error
    /\ realtime_path = Raise("FileNotFoundError")
    /\ now = MaxClock

====
